---- MODULE Spec2Model ----
(***************************************************************************)
(* myday-deploy-app: one deployment run of MydayDeployApp.                 *)
(*                                                                         *)
(* The repository holds two generations of the class:                      *)
(*   "index" : src/unnamed/part_000 (validating constructor, discovery of  *)
(*             the token endpoint, read stream opened in the constructor), *)
(*   "main"  : src/unnamed/part_002 (no validation in the constructor,     *)
(*             fixed /connect/token, read stream opened in uploadApp),      *)
(* and three command lines:                                                *)
(*   "part_001" : src/unnamed/part_001 (no .check, requires ./index),      *)
(*   "readme"   : src/README.md lines 81-118 (.check, requires ./index),   *)
(*   "bin"      : src/bin/cli.js (.check, requires ../src/main),           *)
(* besides "node", the programmatic construction of the class.             *)
(*                                                                         *)
(* A run is a sequence of steps, each the code between two awaits; the     *)
(* environment answers each request with a response or a failure.          *)
(***************************************************************************)
EXTENDS Integers, Sequences, FiniteSets, TLC

VARIABLES
    impl,        \* which generation of the class runs: "index" | "main"
    cli,         \* how it is entered: "node" | "part_001" | "readme" | "bin"
    argv,        \* the options object handed to the constructor
    self,        \* the fields of the MydayDeployApp instance (this.*)
    pc,          \* position of the run
    error,       \* the error that ended the run, "none" while there is none
    requests,    \* every request issued so far, in order
    steps,       \* the methods start() has called so far, in order
    fileStream,  \* the archive read stream: "none" | "open" | "pendingError" | "closed"
    list,        \* getCurrentVersion's local: the listing response
    currentVersion, \* start()'s local: result of getCurrentVersion
    update,      \* uploadApp's parameter `update`
    first,       \* uploadApp's local: response of the first request
    second,      \* uploadApp's local: response of the second request
    report       \* the message handed to this.log at the end of the run

vars == << impl, cli, argv, self, pc, error, requests, steps, fileStream,
           list, currentVersion, update, first, second, report >>

----------------------------------------------------------------------------
(* Values *)

\* JavaScript's undefined and null; no option or response field ever holds
\* these literal strings.
Undefined == "<undefined>"
Null == "<null>"

\* Listing responses hold at most MaxList records.
MaxList == 2

\* Application identifiers are sequences of characters.
Lower == {"a", "b", "c", "d", "x", "y"}
Digit == {"1"}

IdGood  == << "a", "b", ".", "c", "1" >>       \* ab.c1
IdOther == << "x", "y", ".", "a", "b" >>       \* xy.ab
IdNoDot == << "a", "b", "c" >>                 \* abc
IdUpper == << "A", "b", ".", "c", "d" >>       \* Ab.cd

AppIds == { IdGood, IdNoDot, IdUpper }

\* `new URL(x)` succeeds on an absolute URL and throws on anything else.
UrlGood == "https://host.example"
UrlBad  == "host.example"
Urls == { UrlGood, UrlBad }

IsAbsoluteUrl(u) == u = UrlGood

\* tenantId as passed: absent, the string 'null' (yargs), empty, or a tenant.
TenantIds == { Undefined, "null", "", "tenant-1" }

\* platform as passed; the command lines restrict it to the first two.
Platforms == { "v2", "v3", "v1" }

\* Client secrets of length 0..3.
Secrets == { << >>, << "p" >>, << "p", "q" >>, << "p", "q", "r" >> }

Impls == { "index", "main" }

\* The command lines that load each generation of the class.
ClisOf(i) == IF i = "index" THEN { "node", "part_001", "readme" }
                            ELSE { "node", "bin" }

Terminal == { "done", "rejected", "failed", "crashed" }

----------------------------------------------------------------------------
(* Pure helpers *)

\* [a-z][a-z0-9]+
SegmentOk(s) ==
    /\ Len(s) >= 2
    /\ s[1] \in Lower
    /\ \A i \in 2..Len(s) : s[i] \in Lower \cup Digit

\* appId.match(/^[a-z][a-z0-9]+\.[a-z][a-z0-9]+$/)
MatchesAppId(s) ==
    \E k \in 1..Len(s) :
        /\ s[k] = "."
        /\ SegmentOk(SubSeq(s, 1, k - 1))
        /\ SegmentOk(SubSeq(s, k + 1, Len(s)))

\* JavaScript truthiness of a string-or-undefined-or-null value.
Truthy(v) == v # Undefined /\ v # Null /\ v # ""

\* A field of a response object, undefined when the object lacks it.
Get(r, f) == IF f \in DOMAIN r THEN r[f] ELSE Undefined

----------------------------------------------------------------------------
(* Configuration: the command lines and the constructor *)

Argvs ==
    [ appId : AppIds, fileExists : BOOLEAN, platform : Platforms,
      tenantId : TenantIds, apiUrl : Urls, idSrvUrl : Urls,
      clientSecret : Secrets, dryRun : BOOLEAN ]

NotConstructed == [ constructed |-> FALSE ]

\* No response received yet; nothing handed to this.log yet.
NoResponse == [ ok |-> FALSE ]
NoReport == [ kind |-> "none", current |-> Undefined, new |-> Undefined ]

\* yargs `choices: ['v2', 'v3']` on the platform option (all three command lines).
ChoicesError(a) ==
    IF a.platform \in { "v2", "v3" } THEN "none" ELSE "InvalidPlatform"

\* .check of the command line in README.md: appId, apiUrl, idSrvUrl, file.
ReadmeCheckError(a) ==
    IF ~MatchesAppId(a.appId) THEN "InvalidIdentifier"
    ELSE IF ~IsAbsoluteUrl(a.apiUrl) THEN "InvalidUrl"
    ELSE IF ~IsAbsoluteUrl(a.idSrvUrl) THEN "InvalidUrl"
    ELSE IF ~a.fileExists THEN "FileNotFound"
    ELSE "none"

\* .check of bin/cli.js: apiUrl, idSrvUrl, appId, file.
BinCheckError(a) ==
    IF ~IsAbsoluteUrl(a.apiUrl) THEN "InvalidUrl"
    ELSE IF ~IsAbsoluteUrl(a.idSrvUrl) THEN "InvalidUrl"
    ELSE IF ~MatchesAppId(a.appId) THEN "InvalidIdentifier"
    ELSE IF ~a.fileExists THEN "FileNotFound"
    ELSE "none"

\* What the command line `c` rejects `a` with ("none": it constructs the class).
\* yargs runs the custom checks before the limited choices.
CliError(c, a) ==
    LET checked == CASE c = "readme" -> ReadmeCheckError(a)
                     [] c = "bin"    -> BinCheckError(a)
                     [] OTHER        -> "none"
    IN IF checked # "none" THEN checked ELSE ChoicesError(a)

\* What the constructor of generation `i` throws on `a` ("none": it returns).
\* part_000 checks appId, then apiUrl, then idSrvUrl; part_002 checks nothing.
ConstructorError(i, a) ==
    IF i = "main" THEN "none"
    ELSE IF ~MatchesAppId(a.appId) THEN "InvalidIdentifier"
    ELSE IF ~IsAbsoluteUrl(a.apiUrl) THEN "InvalidUrl"
    ELSE IF ~IsAbsoluteUrl(a.idSrvUrl) THEN "InvalidUrl"
    ELSE "none"

\* this.legacy = platform === 'v2'
Legacy(platform) == platform = "v2"

\* this.tenantId = typeof tenantId === 'string' ? tenantId : null
TenantIdOf_NoNullString(tenantId) ==
    IF tenantId # Undefined THEN tenantId ELSE Null

\* this.tenantId = typeof tenantId === 'string' && tenantId !== 'null' ? tenantId : null
TenantIdOf(tenantId) ==
    IF tenantId # Undefined /\ tenantId # "null" THEN tenantId ELSE Null

\* this.appScope = this.tenantId ? 'Tenant' : 'Global'
AppScopeOf(tenantId) == IF Truthy(tenantId) THEN "Tenant" ELSE "Global"

\* this.clientScope = this.legacy ? 'myday-api' : 'myday_api'
ClientScopeOf(legacy) == IF legacy THEN "myday-api" ELSE "myday_api"

\* The instance the constructor returns.
Instance(a) ==
    [ constructed  |-> TRUE,
      appId        |-> a.appId,
      legacy       |-> Legacy(a.platform),
      tenantId     |-> TenantIdOf(a.tenantId),
      appScope     |-> AppScopeOf(TenantIdOf(a.tenantId)),
      apiUrl       |-> a.apiUrl,
      idSrvUrl     |-> a.idSrvUrl,
      clientSecret |-> a.clientSecret,
      clientScope  |-> ClientScopeOf(Legacy(a.platform)),
      dryRun       |-> a.dryRun,
      bearer       |-> Null ]

\* createReadStream(path): the open is asynchronous, a missing file surfaces
\* later as an 'error' event of the stream.
CreateReadStream(exists) == IF exists THEN "open" ELSE "pendingError"

Init ==
    /\ impl \in Impls
    /\ cli \in ClisOf(impl)
    /\ argv \in Argvs
    /\ self = NotConstructed
    /\ pc = IF cli = "node" THEN "construct" ELSE "cli"
    /\ error = "none"
    /\ requests = << >>
    /\ steps = << >>
    /\ fileStream = "none"
    /\ list = << >>
    /\ currentVersion = Undefined
    /\ update = FALSE
    /\ first = NoResponse
    /\ second = NoResponse
    /\ report = NoReport

\* yargs parses and validates the command line before `new MydayDeployApp(argv)`.
Cli ==
    /\ pc = "cli"
    /\ LET e == CliError(cli, argv)
       IN /\ pc' = IF e = "none" THEN "construct" ELSE "rejected"
          /\ error' = e
    /\ UNCHANGED << impl, cli, argv, self, requests, steps, fileStream,
                    list, currentVersion, update, first, second, report >>

\* new MydayDeployApp(argv)
Constructor ==
    /\ pc = "construct"
    /\ LET e == ConstructorError(impl, argv)
       IN /\ error' = e
          /\ pc' = IF e = "none" THEN "start" ELSE "rejected"
          /\ self' = IF e = "none" THEN Instance(argv) ELSE NotConstructed
          \* part_000 opens the stream after the appId check and before the
          \* URL checks; part_002 only keeps the path.
          /\ fileStream' = IF impl = "index" /\ MatchesAppId(argv.appId)
                           THEN CreateReadStream(argv.fileExists)
                           ELSE "none"
    /\ UNCHANGED << impl, cli, argv, requests, steps,
                    list, currentVersion, update, first, second, report >>

----------------------------------------------------------------------------
(* Requests and responses *)

\* One request handed to this.req. `bearer` is the token this.req attaches
\* (Null before authorize), `file` tells whether the archive stream is the
\* multipart body.
Request(method, base, path, scope, appId, fileId, bearer, file) ==
    [ method |-> method, base |-> base, path |-> path, scope |-> scope,
      appId |-> appId, fileId |-> fileId, bearer |-> bearer, file |-> file ]

TokenEndpoint == "https://id.example/connect/token"

\* GET url + '/.well-known/openid-configuration' (part_000 only)
DiscoveryRequest(s) ==
    Request("GET", s.idSrvUrl, "/.well-known/openid-configuration",
            Null, << >>, Null, s.bearer, FALSE)

\* POST token_endpoint (part_000) or url + '/connect/token' (part_002),
\* form: grant_type, client_id, client_secret, scope
TokenRequest(s, url) ==
    Request("POST", url, "token", s.clientScope, << >>, Null, s.bearer, FALSE)

\* GET `${baseUrl}/apps?scope=${scope}` or
\*     `${baseUrl}/app/store/all?collectionScope=${scope}`
ListingRequest(s) ==
    Request("GET", s.apiUrl,
            IF s.legacy THEN "/apps" ELSE "/app/store/all",
            s.appScope, << >>, Null, s.bearer, FALSE)

\* POST `${baseUrl}/apps/${update ? 'update' : 'upload'}?appId=${id}&scope=${scope}` or
\*      `${baseUrl}/files/file?virtualPath=apps&collectionScope=${scope}`,
\* formData: { file }
LegacyPath_AlwaysUpload(upd) == "/apps/upload"

LegacyPath(upd) == IF upd THEN "/apps/update" ELSE "/apps/upload"

FirstRequest(s, upd) ==
    IF s.legacy
    THEN Request("POST", s.apiUrl, LegacyPath(upd),
                 s.appScope, s.appId, Null, s.bearer, TRUE)
    ELSE Request("POST", s.apiUrl, "/files/file",
                 s.appScope, << >>, Null, s.bearer, TRUE)

\* update ? 'PUT' : 'POST'
StoreMethod_AlwaysPost(upd) == "POST"

StoreMethod(upd) == IF upd THEN "PUT" ELSE "POST"

\* `${baseUrl}/app/store?appId=${id}&collectionScope=${scope}&fileId=${first.fileId}`
SecondRequest(s, upd, firstResponse) ==
    Request(StoreMethod(upd), s.apiUrl, "/app/store",
            s.appScope, s.appId, Get(firstResponse, "fileId"), s.bearer, FALSE)

Failure == [ ok |-> FALSE ]

DiscoveryResponses ==
    { [ ok |-> TRUE, token_endpoint |-> TokenEndpoint ], Failure }

TokenResponses ==
    { [ ok |-> TRUE, access_token |-> "tok" ], [ ok |-> TRUE ], Failure }

\* Records of a legacy listing (flat) and of a current listing (nested).
FlatRecords ==
    { [ id |-> IdGood,  version |-> "1.2.0", name |-> "App" ],
      [ id |-> IdOther, version |-> "2.0.0", name |-> "Other" ],
      [ id |-> IdGood,  version |-> "",      name |-> "App" ],
      [ id |-> IdGood,  name |-> "App" ],
      [ version |-> "1.2.0", name |-> "App" ] }

NestedRecords ==
    { [ model |-> [ id |-> IdGood,  version |-> "1.2.0", names |-> "App" ] ],
      [ model |-> [ id |-> IdOther, version |-> "2.0.0", names |-> "Other" ] ],
      [ model |-> [ id |-> IdGood,  version |-> "",      names |-> "App" ] ],
      [ model |-> [ id |-> IdGood,  names |-> "App" ] ],
      [ model |-> [ id |-> IdGood,  version |-> "1.2.0" ] ],
      [ history |-> "h" ] }

\* What a listing may hold: the platform's own records, well formed or not,
\* and one record of the other platform's shape.
ListingRecords(legacy) ==
    IF legacy
    THEN FlatRecords \cup { [ model |-> [ id |-> IdGood, version |-> "1.2.0", names |-> "App" ] ] }
    ELSE NestedRecords

SeqsUpTo(S, n) == UNION { [ 1..k -> S ] : k \in 0..n }

ListingResponses(legacy) ==
    { [ ok |-> TRUE, list |-> l ] : l \in SeqsUpTo(ListingRecords(legacy), MaxList) }
        \cup { Failure }

FirstResponses(legacy) ==
    IF legacy
    THEN { [ ok |-> TRUE, version |-> "1.3.0", name |-> "App" ],
           [ ok |-> TRUE, version |-> "2.0.0", name |-> "App" ],
           Failure }
    ELSE { [ ok |-> TRUE, fileId |-> "f1", fileSize |-> "10" ],
           [ ok |-> TRUE, fileId |-> "f2", fileSize |-> "10" ],
           Failure }

SecondResponses ==
    { [ ok |-> TRUE, version |-> "1.3.0", names |-> "App" ],
      [ ok |-> TRUE, version |-> "2.0.0", names |-> "App" ],
      [ ok |-> TRUE, version |-> "1.3.0" ],
      Failure }

----------------------------------------------------------------------------
(* getCurrentVersion and the redacted secret *)

\* list.find(x => x.id === id) / list.find(x => x.model.id === id) from
\* index i on: the index of the first match (0: none), or a TypeError when
\* a record of a current listing has no model.
RECURSIVE FindFrom(_, _, _, _)
FindFrom(records, id, legacy, i) ==
    IF i > Len(records) THEN [ threw |-> FALSE, idx |-> 0 ]
    ELSE LET x == records[i] IN
         IF legacy
         THEN IF "id" \in DOMAIN x /\ x.id = id
              THEN [ threw |-> FALSE, idx |-> i ]
              ELSE FindFrom(records, id, legacy, i + 1)
         ELSE IF "model" \notin DOMAIN x
              THEN [ threw |-> TRUE, idx |-> 0 ]
              ELSE IF "id" \in DOMAIN x.model /\ x.model.id = id
                   THEN [ threw |-> FALSE, idx |-> i ]
                   ELSE FindFrom(records, id, legacy, i + 1)

\* getCurrentVersion with the v2/v3 interop the wrong way round
\* (found ? legacy ? found.model : found : undefined): a legacy record has no
\* model, and the wrapper of a current record has no names.
GetCurrentVersion_InteropSwapped(records, id, legacy) ==
    LET f == FindFrom(records, id, legacy, 1) IN
    IF f.threw THEN [ threw |-> TRUE, value |-> Undefined ]
    ELSE IF f.idx = 0 THEN [ threw |-> FALSE, value |-> Undefined ]
    ELSE IF legacy THEN [ threw |-> FALSE, value |-> Undefined ]
    ELSE [ threw |-> TRUE, value |-> Undefined ]

\* The part of getCurrentVersion after the listing response: the version of
\* the record found, undefined when none is found. The message handed to
\* verboseLog is built whatever the verbosity, and model.names['en-GB']
\* throws when the model of a current record has no names.
GetCurrentVersion(records, id, legacy) ==
    LET f == FindFrom(records, id, legacy, 1) IN
    IF f.threw THEN [ threw |-> TRUE, value |-> Undefined ]
    ELSE IF f.idx = 0 THEN [ threw |-> FALSE, value |-> Undefined ]
    ELSE LET found == records[f.idx]
             model == IF legacy THEN found ELSE found.model
         IN IF ~legacy /\ "names" \notin DOMAIN model
            THEN [ threw |-> TRUE, value |-> Undefined ]
            ELSE [ threw |-> FALSE, value |-> Get(model, "version") ]

\* '*'.repeat(n) throws a RangeError on a negative count.
RepeatThrows(n) == n < 0

Stars(n) == [ i \in 1..n |-> "*" ]

\* charAt(0) + '*'.repeat(length - 2) + charAt(length - 1); charAt of an
\* index out of range is the empty string.
Redacted(secret) ==
    LET n == Len(secret)
        charAt(i) == IF i >= 1 /\ i <= n THEN << secret[i] >> ELSE << >>
    IN charAt(1) \o Stars(n - 2) \o charAt(n)

\* !!currentVersion
IsUpdate(version) == Truthy(version)

\* if (this.dryRun) / if (this.dry)
DryRunSelected_Ignored(s) == FALSE

DryRunSelected(s) == s.dryRun

\* The message of a dry run, and the message after an upload.
\* `current` and `new` are the versions the message shows.
DryReport(version) ==
    IF Truthy(version)
    THEN [ kind |-> "dryExists", current |-> version, new |-> Undefined ]
    ELSE [ kind |-> "dryAbsent", current |-> Undefined, new |-> Undefined ]

\* "updated ... from new to old": the two versions the wrong way round
UploadReport_VersionsSwapped(version, newVersion) ==
    IF Truthy(version)
    THEN [ kind |-> "updated", current |-> newVersion, new |-> version ]
    ELSE [ kind |-> "first", current |-> Undefined, new |-> newVersion ]

UploadReport(version, newVersion) ==
    IF Truthy(version)
    THEN [ kind |-> "updated", current |-> version, new |-> newVersion ]
    ELSE [ kind |-> "first", current |-> Undefined, new |-> newVersion ]

----------------------------------------------------------------------------
(* The run: start(), one action per stretch of code between two awaits *)

\* A rejected await caught and the run started over.
Fail_Retry(e) ==
    /\ pc' = "start"
    /\ error' = e

\* A rejected await is not caught anywhere: start() rejects and the run ends.
Fail(e) ==
    /\ pc' = "failed"
    /\ error' = e

\* start() without the await on authorize: the listing GET leaves together
\* with the first request of authorize.
Start_NoAwait ==
    /\ pc = "start"
    /\ steps' = steps \o << "authorize", "getCurrentVersion" >>
    /\ requests' = requests \o
           << IF impl = "index" THEN DiscoveryRequest(self)
                                ELSE TokenRequest(self, self.idSrvUrl),
              ListingRequest(self) >>
    /\ pc' = "awaitListing"
    /\ UNCHANGED << impl, cli, argv, self, error, fileStream,
                    list, currentVersion, update, first, second, report >>

\* start() up to the first await of authorize.
Start ==
    /\ pc = "start"
    /\ IF RepeatThrows(Len(self.clientSecret) - 2)
       THEN /\ Fail("RangeError")
            /\ UNCHANGED << requests, steps >>
       ELSE /\ steps' = Append(steps, "authorize")
            /\ requests' = Append(requests,
                   IF impl = "index"
                   THEN DiscoveryRequest(self)
                   ELSE TokenRequest(self, self.idSrvUrl))
            /\ pc' = IF impl = "index" THEN "awaitDiscovery" ELSE "awaitToken"
            /\ UNCHANGED error
    /\ UNCHANGED << impl, cli, argv, self, fileStream,
                    list, currentVersion, update, first, second, report >>

\* part_000: the stream created in the constructor emits 'error' for a
\* missing file while nothing listens to it yet: the process dies. When
\* that happens relative to the requests is not ordered by the code.
StreamError ==
    /\ impl = "index"
    /\ fileStream = "pendingError"
    /\ \/ pc \in { "awaitDiscovery", "awaitToken", "awaitListing" }
       \/ pc = "start" /\ cli = "node"
    /\ pc' = "crashed"
    /\ error' = "StreamError"
    /\ fileStream' = "closed"
    /\ UNCHANGED << impl, cli, argv, self, requests, steps,
                    list, currentVersion, update, first, second, report >>

\* authorize (part_000): the discovery document arrives, or the request fails.
DiscoveryResponse ==
    /\ pc = "awaitDiscovery"
    /\ \E r \in DiscoveryResponses :
          IF r.ok
          THEN /\ requests' = Append(requests, TokenRequest(self, r.token_endpoint))
               /\ pc' = "awaitToken"
               /\ UNCHANGED error
          ELSE /\ Fail("RequestFailed")
               /\ UNCHANGED requests
    /\ UNCHANGED << impl, cli, argv, self, steps, fileStream,
                    list, currentVersion, update, first, second, report >>

\* authorize after the token response, then getCurrentVersion up to its await.
TokenResponse ==
    /\ pc = "awaitToken"
    /\ \E r \in TokenResponses :
          IF r.ok
          THEN LET s == [ self EXCEPT !.bearer = Get(r, "access_token") ]
               IN /\ self' = s
                  /\ steps' = Append(steps, "getCurrentVersion")
                  /\ requests' = Append(requests, ListingRequest(s))
                  /\ pc' = "awaitListing"
                  /\ UNCHANGED error
          ELSE /\ Fail("RequestFailed")
               /\ UNCHANGED << self, steps, requests >>
    /\ UNCHANGED << impl, cli, argv, fileStream,
                    list, currentVersion, update, first, second, report >>

\* getCurrentVersion after the listing response; then the dry-run exit of
\* start(), or uploadApp up to its first await.
ListingResponse ==
    /\ pc = "awaitListing"
    /\ \E r \in ListingResponses(self.legacy) :
          IF ~r.ok
          THEN /\ Fail("RequestFailed")
               /\ UNCHANGED << requests, steps, fileStream, list, currentVersion,
                               update, report >>
          ELSE LET res == GetCurrentVersion(r.list, self.appId, self.legacy) IN
               /\ list' = r.list
               /\ IF res.threw
                  THEN /\ Fail("TypeError")
                       /\ UNCHANGED << requests, steps, fileStream, currentVersion,
                                       update, report >>
                  ELSE /\ currentVersion' = res.value
                       /\ UNCHANGED error
                       /\ IF DryRunSelected(self)
                          THEN /\ report' = DryReport(res.value)
                               /\ pc' = "done"
                               /\ UNCHANGED << requests, steps, fileStream, update >>
                          ELSE /\ steps' = Append(steps, "uploadApp")
                               /\ update' = IsUpdate(res.value)
                               \* part_002 opens the stream here, part_000 passes
                               \* the one the constructor opened
                               /\ fileStream' = IF impl = "main"
                                                THEN CreateReadStream(argv.fileExists)
                                                ELSE fileStream
                               /\ requests' = Append(requests,
                                      FirstRequest(self, IsUpdate(res.value)))
                               /\ pc' = "awaitFirst"
                               /\ UNCHANGED report
    /\ UNCHANGED << impl, cli, argv, self, first, second >>

\* uploadApp after its first response: the legacy return, or the second request.
\* A stream over a missing file fails the request it is the body of.
FirstResponse ==
    /\ pc = "awaitFirst"
    /\ \E r \in FirstResponses(self.legacy) :
          /\ fileStream = "pendingError" => ~r.ok
          /\ IF ~r.ok
             THEN /\ Fail("RequestFailed")
                  /\ fileStream' = IF fileStream = "pendingError"
                                   THEN "closed" ELSE fileStream
                  /\ UNCHANGED << requests, first, report >>
             ELSE /\ first' = r
                  /\ fileStream' = "closed"
                  /\ UNCHANGED error
                  /\ IF self.legacy
                     THEN /\ report' = UploadReport(currentVersion, Get(r, "version"))
                          /\ pc' = "done"
                          /\ UNCHANGED requests
                     ELSE /\ requests' = Append(requests,
                                 SecondRequest(self, update, r))
                          /\ pc' = "awaitSecond"
                          /\ UNCHANGED report
    /\ UNCHANGED << impl, cli, argv, self, steps, list, currentVersion,
                    update, second >>

\* uploadApp after its second response (current platform), then the end of
\* start(). second.names['en-GB'] is evaluated whatever the verbosity.
SecondResponse ==
    /\ pc = "awaitSecond"
    /\ \E r \in SecondResponses :
          IF ~r.ok
          THEN /\ Fail("RequestFailed")
               /\ UNCHANGED << second, report >>
          ELSE /\ second' = r
               /\ IF "names" \notin DOMAIN r
                  THEN /\ Fail("TypeError")
                       /\ UNCHANGED report
                  ELSE /\ report' = UploadReport(currentVersion, Get(r, "version"))
                       /\ pc' = "done"
                       /\ UNCHANGED error
    /\ UNCHANGED << impl, cli, argv, self, requests, steps, fileStream,
                    list, currentVersion, update, first >>

Next ==
    \/ Cli
    \/ Constructor
    \/ Start
    \/ StreamError
    \/ DiscoveryResponse
    \/ TokenResponse
    \/ ListingResponse
    \/ FirstResponse
    \/ SecondResponse

Spec == Init /\ [][Next]_vars

----------------------------------------------------------------------------
(* Vocabulary of the properties *)

Range(f) == { f[i] : i \in DOMAIN f }

AuthPaths == { "/.well-known/openid-configuration", "token" }
ListingPaths == { "/apps", "/app/store/all" }
LegacyUploadPaths == { "/apps/upload", "/apps/update" }
CurrentUploadPaths == { "/files/file", "/app/store" }
UploadPaths == LegacyUploadPaths \cup CurrentUploadPaths

IsUploadRequest(r) == r.path \in UploadPaths

\* The requests uploadApp has issued, in order.
UploadRequests == SelectSeq(requests, IsUploadRequest)

Paths == [ i \in DOMAIN requests |-> requests[i].path ]

IsPrefix(p, q) == Len(p) <= Len(q) /\ \A i \in DOMAIN p : p[i] = q[i]

StepOrder == << "authorize", "getCurrentVersion", "uploadApp" >>

----------------------------------------------------------------------------
(* C1 *)

\* C1: in a run whose dry-run flag is set, on either platform and whether or
\* not the resolver found a version, no upload request is ever issued: every
\* request is one of authorize's or the listing GET, uploadApp is never
\* called, and after the listing response the run has stopped.
C1_DryRunNeverUploads ==
    (self.constructed /\ self.dryRun) =>
        /\ \A i \in DOMAIN requests :
              /\ ~IsUploadRequest(requests[i])
              /\ requests[i].path \in AuthPaths \cup ListingPaths
        /\ "uploadApp" \notin Range(steps)
        /\ pc \notin { "awaitFirst", "awaitSecond" }
        /\ Len(SelectSeq(requests, LAMBDA r : r.path \in ListingPaths)) <= 1

\* A dry run on the current platform that found the application and stopped.
C1_Witness ==
    /\ pc = "done"
    /\ self.dryRun
    /\ ~self.legacy
    /\ report.kind = "dryExists"
    /\ requests[Len(requests)].path = "/app/store/all"

----------------------------------------------------------------------------
(* C2 *)

\* The paths a run requests, in order, when nothing fails.
ExpectedPaths ==
    (IF impl = "index" THEN << "/.well-known/openid-configuration" >> ELSE << >>)
    \o << "token" >>
    \o (IF self.legacy
        THEN << "/apps", LegacyPath(update) >>
        ELSE << "/app/store/all", "/files/file", "/app/store" >>)

\* Where the run waits for the response to a request of path `p`.
AwaitOf(p) ==
    CASE p = "/.well-known/openid-configuration" -> "awaitDiscovery"
      [] p = "token" -> "awaitToken"
      [] p \in ListingPaths -> "awaitListing"
      [] p \in LegacyUploadPaths \cup { "/files/file" } -> "awaitFirst"
      [] OTHER -> "awaitSecond"

C2_OrderInv ==
    /\ IsPrefix(steps, StepOrder)
    /\ self.constructed =>
          /\ IsPrefix(Paths, ExpectedPaths)
          /\ (\E i \in DOMAIN requests : requests[i].path \in ListingPaths)
                => self.bearer # Null
          /\ self.dryRun => "uploadApp" \notin Range(steps)
    /\ ~self.constructed => requests = << >>

\* A request is issued only by start() itself or in the step that receives
\* the response to the request before it, and one at a time.
C2_OneAtATime ==
    requests' # requests =>
        /\ Len(requests') = Len(requests) + 1
        /\ SubSeq(requests', 1, Len(requests)) = requests
        /\ IF requests = << >>
           THEN pc = "start"
           ELSE pc = AwaitOf(requests[Len(requests)].path)
        /\ pc' \in Terminal \cup { AwaitOf(requests'[Len(requests')].path) }

\* How far a run has come: every step of the run moves it on.
Rank(p) ==
    CASE p = "cli" -> 0
      [] p = "construct" -> 1
      [] p = "start" -> 2
      [] p = "awaitDiscovery" -> 3
      [] p = "awaitToken" -> 4
      [] p = "awaitListing" -> 5
      [] p = "awaitFirst" -> 6
      [] p = "awaitSecond" -> 7
      [] OTHER -> 8

\* C2: every run calls authorize, then getCurrentVersion, then (unless dry
\* run) uploadApp, each at most once; the listing GET is issued only after
\* the token response, an upload request only after the listing response,
\* nothing is repeated or retried, and the run reaches a terminal state once
\* every request is answered: short of a terminal state a step is always
\* possible (the code runs on, or an answer is awaited), and every step
\* moves the run strictly on towards one.
C2_FixedOrder ==
    /\ []C2_OrderInv
    /\ [](pc \notin Terminal => ENABLED Next)
    /\ [][C2_OneAtATime /\ Rank(pc') > Rank(pc)]_vars

\* A complete upload on the current platform through part_000: five
\* requests, three steps.
C2_Witness ==
    /\ pc = "done"
    /\ steps = StepOrder
    /\ Len(requests) = 5

----------------------------------------------------------------------------
(* C3, C4 *)

\* C3: on the current platform uploadApp issues two requests in order: a
\* multipart POST to files/file, then, only once that response has arrived,
\* one request to app/store whose method is PUT iff `update` and POST
\* otherwise and whose fileId is the fileId of the first response; an upload
\* that completes has issued exactly these two.
C3_CurrentTwoRequests ==
    (self.constructed /\ ~self.legacy) =>
        LET up == UploadRequests IN
        /\ Len(up) <= 2
        /\ "uploadApp" \in Range(steps) <=> Len(up) >= 1
        /\ Len(up) >= 1 =>
              /\ up[1].method = "POST"
              /\ up[1].path = "/files/file"
              /\ up[1].file
        /\ Len(up) = 2 =>
              /\ first.ok
              /\ up[2].path = "/app/store"
              /\ up[2].method = (IF update THEN "PUT" ELSE "POST")
              /\ up[2].fileId = Get(first, "fileId")
              /\ up[2].appId = self.appId
              /\ ~up[2].file
        /\ (pc = "awaitSecond" \/ second.ok \/ report.kind \in { "updated", "first" })
              => Len(up) = 2
        /\ (first.ok /\ "uploadApp" \in Range(steps)) => Len(up) = 2

\* An update on the current platform: the store request is a PUT carrying
\* the file identifier the Files API returned.
C3_Witness ==
    /\ pc = "done"
    /\ ~self.legacy
    /\ update
    /\ Len(UploadRequests) = 2
    /\ UploadRequests[2].method = "PUT"
    /\ UploadRequests[2].fileId = "f2"

\* C4: on the legacy platform uploadApp issues exactly one request, a
\* multipart POST to apps/update iff `update` and to apps/upload otherwise,
\* and returns the version of that one response; it never requests
\* files/file or app/store.
C4_LegacyOneRequest ==
    (self.constructed /\ self.legacy) =>
        LET up == UploadRequests IN
        /\ Len(up) <= 1
        /\ "uploadApp" \in Range(steps) <=> Len(up) = 1
        /\ Len(up) = 1 =>
              /\ up[1].method = "POST"
              /\ up[1].path = (IF update THEN "/apps/update" ELSE "/apps/upload")
              /\ up[1].appId = self.appId
              /\ up[1].file
        /\ \A i \in DOMAIN requests : requests[i].path \notin CurrentUploadPaths
        /\ pc # "awaitSecond"
        /\ ~second.ok
        /\ (pc = "done" /\ ~self.dryRun) =>
              /\ first.ok
              /\ report.new = Get(first, "version")

\* A legacy update that completed: one request, to apps/update.
C4_Witness ==
    /\ pc = "done"
    /\ self.legacy
    /\ update
    /\ Len(UploadRequests) = 1
    /\ UploadRequests[1].path = "/apps/update"
    /\ report.new = "1.3.0"

----------------------------------------------------------------------------
(* C5, C6, C7 *)

\* The indexes of the listing's records whose identifier is `id`.
Matching(records, id, legacy) ==
    { i \in DOMAIN records :
        IF legacy
        THEN "id" \in DOMAIN records[i] /\ records[i].id = id
        ELSE /\ "model" \in DOMAIN records[i]
             /\ "id" \in DOMAIN records[i].model
             /\ records[i].model.id = id }

Min(S) == CHOOSE i \in S : \A j \in S : i <= j

\* getCurrentVersion has returned (start() went on), or has thrown.
Resolved ==
    /\ "getCurrentVersion" \in Range(steps)
    /\ pc = "done" \/ "uploadApp" \in Range(steps)

ResolverThrew ==
    /\ pc = "failed"
    /\ error = "TypeError"
    /\ "uploadApp" \notin Range(steps)

\* C5: whenever start() reaches uploadApp, the update flag it passes is true
\* exactly when the listing held a record with the application's identifier,
\* also when that record's version is empty or missing.
C5_UpdateIffRecordFound ==
    "uploadApp" \in Range(steps) =>
        (update <=> Matching(list, self.appId, self.legacy) # {})

\* C6 as claimed: appScope is 'Tenant' iff a non-empty tenantId was passed.
C6_TenantIffNonEmpty ==
    self.constructed =>
        (self.appScope = "Tenant" <=> argv.tenantId \notin { Undefined, "" })

\* C6 (amended): appScope is 'Tenant' iff the tenantId option is a non-empty
\* string other than the string 'null', and 'Global' otherwise; it keeps that
\* value through the run and every listing and upload request carries it.
C6_ScopeFromTenantId ==
    self.constructed =>
        /\ self.appScope =
              (IF argv.tenantId \in { Undefined, "null", "" }
               THEN "Global" ELSE "Tenant")
        /\ \A i \in DOMAIN requests :
              requests[i].path \in ListingPaths \cup UploadPaths
                  => requests[i].scope = self.appScope

\* The string 'null' as tenantId: a run that listed the Global applications.
C6_Witness ==
    /\ self.constructed
    /\ argv.tenantId = "null"
    /\ self.appScope = "Global"
    /\ \E i \in DOMAIN requests :
          requests[i].path \in ListingPaths /\ requests[i].scope = "Global"

\* Every record of a current listing has a model with names.
WellFormedListing(records, legacy) ==
    legacy \/ \A i \in DOMAIN records :
                 /\ "model" \in DOMAIN records[i]
                 /\ "names" \in DOMAIN records[i].model

----------------------------------------------------------------------------
(* C8, C9, C10 *)

\* A configuration the Configuration Loader is to reject.
InvalidConfig(a) ==
    \/ ~MatchesAppId(a.appId)
    \/ ~IsAbsoluteUrl(a.apiUrl)
    \/ ~IsAbsoluteUrl(a.idSrvUrl)
    \/ ~a.fileExists

\* C8: for a configuration with a malformed appId, an apiUrl or idSrvUrl
\* that is no absolute URL, or a file that does not exist, no request
\* (discovery, token, listing, upload) is ever issued, whether it comes from
\* a command line or the class is constructed programmatically.
C8_RejectedBeforeNetwork ==
    InvalidConfig(argv) => requests = << >>

HasPath(P) == \E i \in DOMAIN requests : requests[i].path \in P

C9_AbortInv ==
    error # "none" =>
        /\ pc \in { "rejected", "failed", "crashed" }
        /\ report = NoReport
        /\ (pc = "failed" /\ error = "RequestFailed") =>
              LET failed == requests[Len(requests)].path IN
              /\ failed \in AuthPaths =>
                    ~HasPath(ListingPaths) /\ ~HasPath(UploadPaths)
              /\ failed \in ListingPaths => ~HasPath(UploadPaths)
              /\ failed = "/files/file" => ~HasPath({ "/app/store" })
              /\ \A i, j \in DOMAIN requests :
                    requests[i].path = requests[j].path => i = j

\* C9: a failed request ends the run where it failed: nothing is retried,
\* no request follows it (no listing or upload after a failed discovery or
\* token request, no upload after a failed listing, no store registration
\* after a failed file upload), and nothing is reported as a success.
C9_FailureAborts ==
    /\ []C9_AbortInv
    /\ [][error # "none" => (requests' = requests /\ report' = report)]_vars

\* The file upload of the current platform failed: the run ended with no
\* store request and no report.
C9_Witness ==
    /\ pc = "failed"
    /\ error = "RequestFailed"
    /\ requests[Len(requests)].path = "/files/file"
    /\ fileStream = "open"
    /\ report = NoReport

\* C10: a run that is no dry run and completes the upload reports 'updated
\* from V_old to V_new' iff the resolver returned a version V_old, and
\* 'uploaded for the first time at V_new' otherwise, V_new being the version
\* of the store-registration response (current) or of the one upload
\* response (legacy) and V_old what getCurrentVersion returned for the
\* listing.
C10_FinalReport ==
    (pc = "done" /\ ~self.dryRun) =>
        LET m == Matching(list, self.appId, self.legacy)
            vOld == IF m = {} THEN Undefined
                    ELSE Get(IF self.legacy THEN list[Min(m)]
                                            ELSE list[Min(m)].model, "version")
            vNew == IF self.legacy THEN Get(first, "version")
                                   ELSE Get(second, "version")
        IN /\ currentVersion = vOld
           /\ IF vOld \notin { Undefined, "" }
              THEN report = [ kind |-> "updated", current |-> vOld, new |-> vNew ]
              ELSE report = [ kind |-> "first", current |-> Undefined, new |-> vNew ]

\* An update on the current platform from 1.2.0 to the 2.0.0 the store
\* registration answered.
C10_Witness ==
    /\ pc = "done"
    /\ ~self.legacy
    /\ second.ok
    /\ report = [ kind |-> "updated", current |-> "1.2.0", new |-> "2.0.0" ]

-----------------------------------------------------------------------------
(* Platform validation.  The command lines limit --platform to its two      *)
(* choices; the constructor only compares the value with 'v2'.              *)

ValidPlatforms == { "v2", "v3" }

\* C11: a configuration whose platform is neither 'v2' nor 'v3' is rejected
\* before any request is issued for it, from a command line and from
\* programmatic construction of MydayDeployApp alike; the configuration is
\* taken valid in every other respect, so that the platform alone decides.
C11_InvalidPlatformRejected ==
    (argv.platform \notin ValidPlatforms /\ ~InvalidConfig(argv)) =>
        requests = << >>

-----------------------------------------------------------------------------
(* The token response.  authorize destructures access_token from the        *)
(* response and installs it as the bearer of every later request.           *)

\* The token request was answered successfully by a body without an
\* access_token field: the bearer authorize installed is undefined.
TokenMissing == self.constructed /\ self.bearer = Undefined

\* C12: when the token response arrives successfully but holds no
\* access_token, authorize fails and the run aborts: no listing request and
\* no upload request is issued afterwards.
C12_MissingTokenAborts ==
    TokenMissing =>
        /\ pc = "failed"
        /\ ~HasPath(ListingPaths \cup UploadPaths)

-----------------------------------------------------------------------------
(* Malformed listings.  getCurrentVersion reads id and version of a legacy  *)
(* record, and model, model.id and model.version of a current one.          *)

MalformedRecord(rec, legacy) ==
    IF legacy
    THEN "id" \notin DOMAIN rec \/ "version" \notin DOMAIN rec
    ELSE \/ "model" \notin DOMAIN rec
         \/ "id" \notin DOMAIN rec.model
         \/ "version" \notin DOMAIN rec.model

MalformedListing ==
    /\ self.constructed
    /\ \E i \in DOMAIN list : MalformedRecord(list[i], self.legacy)

\* C13: when the listing response holds a record that lacks an expected
\* field (legacy: id or version; current: model, model.id or model.version),
\* getCurrentVersion fails and the run aborts without uploading; such a
\* listing is never taken as 'application not found' or as a first
\* deployment.
C13_MalformedIsFatal ==
    MalformedListing =>
        /\ pc = "failed"
        /\ "uploadApp" \notin Range(steps)
        /\ report = NoReport

-----------------------------------------------------------------------------
(* The archive's read stream.  One class creates it in its constructor,     *)
(* the other in uploadApp, as the form data of the upload request.          *)

HandleOpen == fileStream = "open"

\* C14: the archive's file stream is opened only immediately before the
\* upload request and released on every exit path: no handle is open before
\* the upload step begins, and none remains open at a terminal state of the
\* run, be it success, dry-run completion or a failure of authorization,
\* listing or upload.
C14_StreamScoped ==
    /\ HandleOpen => "uploadApp" \in Range(steps)
    /\ pc \in Terminal => ~HandleOpen

-----------------------------------------------------------------------------
(* The redacted secret of the configuration summary, which start() builds   *)
(* as an argument of verboseLog before it calls authorize.                  *)

\* start() has evaluated the summary: it went on to authorize or failed in
\* the redaction.
SummaryEvaluated ==
    "authorize" \in Range(steps) \/ error = "RangeError"

\* The secret with every character but its first and last replaced by '*'.
MasksInterior(secret, shown) ==
    /\ Len(shown) = Len(secret)
    /\ \A i \in DOMAIN shown :
          shown[i] = IF i \in { 1, Len(secret) } THEN secret[i] ELSE "*"

\* C15: for every client secret the constructor accepts, of any length, 0, 1
\* and 2 included, start() builds the redacted summary without an error and
\* goes on to authorization; the redacted secret is as long as the secret,
\* shows its first and last character and has '*' for every interior one.
C15_RedactionForEverySecret ==
    SummaryEvaluated =>
        /\ error # "RangeError"
        /\ "authorize" \in Range(steps)
        /\ MasksInterior(self.clientSecret, Redacted(self.clientSecret))
====
